---- MODULE Spec2Model ----
\* Email Thread Summarization Tool: the text pipeline (extract_subject,
\* preprocess_email, truncation) and the two front ends that drive it
\* (email_summarizer_tkinter.py, email_summarizer_streamlit.py).
\*
\* A text is a sequence of one-character strings.
EXTENDS Integers, Sequences, FiniteSets, TLC

\* ------------------------------------------------------------------ bounds
\* Number of pieces an input text of SpecText is put together from.
MaxPieces == 3
\* Number of browser sessions of the web front end.
MaxSessions == 2
\* Number of user actions (clicks, edits) one run of a front end is followed for.
MaxActions == 4

\* ------------------------------------------------------- program constants
SubjectMax == 60
SubjectKeep == 57
max_length == 1024

\* ------------------------------------------------------------- characters
NL == "\n"
Ellipsis == <<".", ".", ".">>

\* What \s and str.strip() treat as whitespace, within the model's alphabet.
Whitespace == {" ", "\n", "\t"}

IsSpace(c) == c \in Whitespace

UpperToLower ==
    ("A" :> "a") @@ ("B" :> "b") @@ ("C" :> "c") @@ ("D" :> "d") @@ ("E" :> "e") @@
    ("F" :> "f") @@ ("G" :> "g") @@ ("H" :> "h") @@ ("I" :> "i") @@ ("J" :> "j") @@
    ("K" :> "k") @@ ("L" :> "l") @@ ("M" :> "m") @@ ("N" :> "n") @@ ("O" :> "o") @@
    ("P" :> "p") @@ ("Q" :> "q") @@ ("R" :> "r") @@ ("S" :> "s") @@ ("T" :> "t") @@
    ("U" :> "u") @@ ("V" :> "v") @@ ("W" :> "w") @@ ("X" :> "x") @@ ("Y" :> "y") @@
    ("Z" :> "z")

\* Case folding of re.IGNORECASE.
Lower(c) == IF c \in DOMAIN UpperToLower THEN UpperToLower[c] ELSE c

MinOf(S) == CHOOSE x \in S : \A y \in S : x <= y
MaxOf(S) == CHOOSE x \in S : \A y \in S : x >= y

\* The literal w occurs in s at position i (ci: ignoring case).
LiteralAt(s, i, w, ci) ==
    /\ i >= 1
    /\ i + Len(w) - 1 <= Len(s)
    /\ \A k \in 1..Len(w) :
          IF ci THEN Lower(s[i + k - 1]) = Lower(w[k]) ELSE s[i + k - 1] = w[k]

\* str.strip(): the text without its leading and trailing whitespace.
strip(s) ==
    IF \A i \in 1..Len(s) : IsSpace(s[i]) THEN <<>>
    ELSE LET lo == CHOOSE i \in 1..Len(s) :
                      ~IsSpace(s[i]) /\ \A j \in 1..(i - 1) : IsSpace(s[j])
             hi == CHOOSE i \in 1..Len(s) :
                      ~IsSpace(s[i]) /\ \A j \in (i + 1)..Len(s) : IsSpace(s[j])
         IN  SubSeq(s, lo, hi)

\* str.split('\n'): the lines of the text; a text without newline is one line.
RECURSIVE split(_)
split(s) ==
    IF \A i \in 1..Len(s) : s[i] # NL THEN <<s>>
    ELSE LET i == CHOOSE n \in 1..Len(s) : s[n] = NL /\ \A j \in 1..(n - 1) : s[j] # NL
         IN  <<SubSeq(s, 1, i - 1)>> \o split(SubSeq(s, i + 1, Len(s)))

\* ^ under re.MULTILINE: position a starts a line.
AtLineStart(s, a) == a = 1 \/ s[a - 1] = NL

\* .*$ under re.MULTILINE from position a: the last position of a's line.
LineEnd(s, a) ==
    IF \A b \in a..Len(s) : s[b] # NL THEN Len(s)
    ELSE (CHOOSE n \in a..Len(s) : s[n] = NL /\ \A j \in a..(n - 1) : s[j] # NL) - 1

\* The last position of the whitespace that starts at a (a - 1 when none does).
SpaceEnd(s, a) ==
    IF \A k \in a..Len(s) : IsSpace(s[k]) THEN Len(s)
    ELSE (CHOOSE k \in a..Len(s) : ~IsSpace(s[k]) /\ \A j \in a..(k - 1) : IsSpace(s[j])) - 1

\* r'\n\s*\n': a newline, greedy whitespace, a newline.
BlankLinesEnd(s, a) ==
    IF s[a] # NL THEN 0
    ELSE LET ends == {b \in (a + 1)..SpaceEnd(s, a) : s[b] = NL}
         IN  IF ends = {} THEN 0 ELSE MaxOf(ends)

HeaderLabels ==
    { <<"F", "r", "o", "m">>, <<"T", "o">>, <<"D", "a", "t", "e">>,
      <<"S", "u", "b", "j", "e", "c", "t">>, <<"C", "c">>, <<"B", "c", "c">> }

\* r'^(From|To|Date|Subject|Cc|Bcc):.*$' with re.MULTILINE.
HeaderLineEnd(s, a) ==
    IF AtLineStart(s, a) /\ \E h \in HeaderLabels : LiteralAt(s, a, h \o <<":">>, FALSE)
    THEN LineEnd(s, a) ELSE 0

\* r'^>.*$' with re.MULTILINE.
QuotedLineEnd(s, a) ==
    IF AtLineStart(s, a) /\ s[a] = ">" THEN LineEnd(s, a) ELSE 0

Salutations_tkinter ==
    { <<"B", "e", "s", "t", " ", "r", "e", "g", "a", "r", "d", "s">>,
      <<"S", "i", "n", "c", "e", "r", "e", "l", "y">>,
      <<"T", "h", "a", "n", "k", "s">>,
      <<"R", "e", "g", "a", "r", "d", "s">>,
      <<"B", "e", "s", "t">> }

Salutations_streamlit == Salutations_tkinter \cup { <<"C", "h", "e", "e", "r", "s">> }

\* The text from position q on starts with whitespace that holds a newline (\s*\n).
SpaceThenNewline(s, q) == \E b \in q..SpaceEnd(s, q) : s[b] = NL

\* r'(Best regards|...),?\s*\n.*' with re.IGNORECASE | re.DOTALL: a salutation
\* anywhere in the text, an optional comma, whitespace up to a newline, and
\* everything after it.
SignatureEnd(s, a, salutations) ==
    IF \E w \in salutations :
          /\ LiteralAt(s, a, w, TRUE)
          /\ LET p == a + Len(w)
                 q == IF p <= Len(s) /\ s[p] = "," THEN p + 1 ELSE p
             IN  SpaceThenNewline(s, q)
    THEN Len(s) ELSE 0

\* r'\n{3,}': three or more newlines.
NewlineRunEnd(s, a) ==
    IF LiteralAt(s, a, <<NL, NL, NL>>, FALSE)
    THEN IF \A k \in a..Len(s) : s[k] = NL THEN Len(s)
         ELSE (CHOOSE k \in a..Len(s) : s[k] # NL /\ \A j \in a..(k - 1) : s[j] = NL) - 1
    ELSE 0

\* The last position of the pattern's match that starts at position a of s, 0
\* when the pattern does not match there.
MatchEnd(pattern, s, a) ==
    CASE pattern = "blank_lines" -> BlankLinesEnd(s, a)
      [] pattern = "header_line" -> HeaderLineEnd(s, a)
      [] pattern = "quoted_line" -> QuotedLineEnd(s, a)
      [] pattern = "signature_tkinter" -> SignatureEnd(s, a, Salutations_tkinter)
      [] pattern = "signature_streamlit" -> SignatureEnd(s, a, Salutations_streamlit)
      [] pattern = "newline_run" -> NewlineRunEnd(s, a)

\* re.sub(pattern, repl, s): the leftmost non-overlapping matches, left to right,
\* each replaced by repl.
RECURSIVE re_sub_from(_, _, _, _)
re_sub_from(s, pos, pattern, repl) ==
    IF \A a \in pos..Len(s) : MatchEnd(pattern, s, a) = 0 THEN SubSeq(s, pos, Len(s))
    ELSE LET a == CHOOSE x \in pos..Len(s) :
                     /\ MatchEnd(pattern, s, x) > 0
                     /\ \A y \in pos..(x - 1) : MatchEnd(pattern, s, y) = 0
         IN  SubSeq(s, pos, a - 1) \o repl
               \o re_sub_from(s, MatchEnd(pattern, s, a) + 1, pattern, repl)

re_sub(pattern, repl, s) == re_sub_from(s, 1, pattern, repl)

SubjectLabel == <<"S", "u", "b", "j", "e", "c", "t", ":">>

\* re.sub(r'^Subject:\s*', '', subject, flags=re.IGNORECASE): the label at the
\* start of the text and the whitespace after it.
remove_subject_prefix(subject) ==
    IF LiteralAt(subject, 1, SubjectLabel, TRUE)
    THEN LET rest == SubSeq(subject, Len(SubjectLabel) + 1, Len(subject))
             solid == {i \in 1..Len(rest) : ~IsSpace(rest[i])}
         IN  IF solid = {} THEN <<>>
             ELSE SubSeq(rest, CHOOSE i \in solid : \A j \in 1..(i - 1) : IsSpace(rest[j]),
                         Len(rest))
    ELSE subject

shorten_subject_to_60(subject) ==
    IF Len(subject) > SubjectMax
    THEN SubSeq(subject, 1, SubjectMax) \o Ellipsis
    ELSE subject

\* if len(subject) > 60: subject = subject[:57] + "..."
shorten_subject(subject) ==
    IF Len(subject) > SubjectMax
    THEN SubSeq(subject, 1, SubjectKeep) \o Ellipsis
    ELSE subject

\* lines[0] if lines else email_text[:60], stripped.
first_line(email_text) ==
    LET lines == split(strip(email_text))
    IN  strip(IF lines # <<>> THEN lines[1]
              ELSE SubSeq(email_text, 1, IF Len(email_text) < SubjectMax
                                         THEN Len(email_text) ELSE SubjectMax))

extract_subject_tkinter(email_text) == shorten_subject(first_line(email_text))

extract_subject_streamlit(email_text) ==
    shorten_subject(remove_subject_prefix(first_line(email_text)))

\* The steps of preprocess_email, in the order of the code.
collapse_blank_lines(text) == re_sub("blank_lines", <<NL, NL>>, text)

remove_headers(text) == re_sub("header_line", <<>>, text)

\* The pattern without re.MULTILINE: ^ and $ are the ends of the text.
remove_quoted_unflagged(text) ==
    IF text # <<>> /\ text[1] = ">" /\ \A k \in 1..(Len(text) - 1) : text[k] # NL
    THEN (IF text[Len(text)] = NL THEN <<NL>> ELSE <<>>)
    ELSE text

remove_quoted(text) == re_sub("quoted_line", <<>>, text)

remove_signature_tkinter(text) ==
    re_sub("signature_tkinter", <<>>, text)

remove_signature_streamlit(text) ==
    re_sub("signature_streamlit", <<>>, text)

collapse_newlines(text) == re_sub("newline_run", <<NL, NL>>, text)

preprocess_email_tkinter(email_text) ==
    strip(remove_signature_tkinter(remove_quoted(remove_headers(
        collapse_blank_lines(email_text)))))

preprocess_email_streamlit(email_text) ==
    strip(collapse_newlines(remove_signature_streamlit(remove_quoted(remove_headers(
        collapse_blank_lines(email_text))))))

\* if len(processed_text) > max_length: processed_text = processed_text[:max_length]
truncate(processed_text) ==
    IF Len(processed_text) > max_length
    THEN SubSeq(processed_text, 1, max_length)
    ELSE processed_text

\* sample_email of load_sample_email (desktop), character by character.
sample_email_tkinter ==
    <<
       "S", "u", "b", "j", "e", "c", "t", ":", " ", "P", "r", "o", "j", "e", "c", "t",
       " ", "U", "p", "d", "a", "t", "e", " ", "-", " ", "Q", "4", " ", "D", "e", "l",
       "i", "v", "e", "r", "a", "b", "l", "e", "s", "\n", "\n", "H", "i", " ", "T", "e",
       "a", "m", ",", "\n", "\n", "I", " ", "w", "a", "n", "t", "e", "d", " ", "t", "o",
       " ", "p", "r", "o", "v", "i", "d", "e", " ", "a", " ", "q", "u", "i", "c", "k",
       " ", "u", "p", "d", "a", "t", "e", " ", "o", "n", " ", "o", "u", "r", " ", "Q",
       "4", " ", "p", "r", "o", "j", "e", "c", "t", " ", "d", "e", "l", "i", "v", "e",
       "r", "a", "b", "l", "e", "s", " ", "a", "n", "d", " ", "t", "i", "m", "e", "l",
       "i", "n", "e", " ", "a", "d", "j", "u", "s", "t", "m", "e", "n", "t", "s", ".",
       "\n", "\n", "F", "i", "r", "s", "t", ",", " ", "I", "'", "m", " ", "p", "l", "e",
       "a", "s", "e", "d", " ", "t", "o", " ", "r", "e", "p", "o", "r", "t", " ", "t",
       "h", "a", "t", " ", "t", "h", "e", " ", "a", "l", "p", "h", "a", " ", "v", "e",
       "r", "s", "i", "o", "n", " ", "o", "f", " ", "o", "u", "r", " ", "n", "e", "w",
       " ", "c", "u", "s", "t", "o", "m", "e", "r", " ", "p", "o", "r", "t", "a", "l",
       " ", "h", "a", "s", " ", "b", "e", "e", "n", " ", "\n", "s", "u", "c", "c", "e",
       "s", "s", "f", "u", "l", "l", "y", " ", "d", "e", "p", "l", "o", "y", "e", "d",
       " ", "t", "o", " ", "t", "h", "e", " ", "s", "t", "a", "g", "i", "n", "g", " ",
       "e", "n", "v", "i", "r", "o", "n", "m", "e", "n", "t", ".", " ", "T", "h", "e",
       " ", "d", "e", "v", "e", "l", "o", "p", "m", "e", "n", "t", " ", "t", "e", "a",
       "m", " ", "h", "a", "s", " ", "d", "o", "n", "e", " ", "a", "n", " ", "e", "x",
       "c", "e", "l", "l", "e", "n", "t", " ", "\n", "j", "o", "b", " ", "i", "m", "p",
       "l", "e", "m", "e", "n", "t", "i", "n", "g", " ", "t", "h", "e", " ", "c", "o",
       "r", "e", " ", "f", "e", "a", "t", "u", "r", "e", "s", ",", " ", "i", "n", "c",
       "l", "u", "d", "i", "n", "g", " ", "u", "s", "e", "r", " ", "a", "u", "t", "h",
       "e", "n", "t", "i", "c", "a", "t", "i", "o", "n", ",", " ", "d", "a", "s", "h",
       "b", "o", "a", "r", "d", " ", "a", "n", "a", "l", "y", "t", "i", "c", "s", ",",
       " ", "a", "n", "d", " ", "\n", "t", "h", "e", " ", "r", "e", "p", "o", "r", "t",
       "i", "n", "g", " ", "m", "o", "d", "u", "l", "e", ".", " ", "I", "n", "i", "t",
       "i", "a", "l", " ", "t", "e", "s", "t", "i", "n", "g", " ", "s", "h", "o", "w",
       "s", " ", "t", "h", "a", "t", " ", "p", "a", "g", "e", " ", "l", "o", "a", "d",
       " ", "t", "i", "m", "e", "s", " ", "h", "a", "v", "e", " ", "i", "m", "p", "r",
       "o", "v", "e", "d", " ", "b", "y", " ", "4", "0", "%", " ", "c", "o", "m", "p",
       "a", "r", "e", "d", " ", "\n", "t", "o", " ", "o", "u", "r", " ", "c", "u", "r",
       "r", "e", "n", "t", " ", "s", "y", "s", "t", "e", "m", ".", "\n", "\n", "H", "o",
       "w", "e", "v", "e", "r", ",", " ", "w", "e", "'", "v", "e", " ", "e", "n", "c",
       "o", "u", "n", "t", "e", "r", "e", "d", " ", "s", "o", "m", "e", " ", "c", "h",
       "a", "l", "l", "e", "n", "g", "e", "s", " ", "w", "i", "t", "h", " ", "t", "h",
       "e", " ", "p", "a", "y", "m", "e", "n", "t", " ", "i", "n", "t", "e", "g", "r",
       "a", "t", "i", "o", "n", " ", "m", "o", "d", "u", "l", "e", ".", " ", "T", "h",
       "e", " ", "t", "h", "i", "r", "d", "-", "p", "a", "r", "t", "y", " ", "\n", "A",
       "P", "I", " ", "w", "e", "'", "r", "e", " ", "u", "s", "i", "n", "g", " ", "h",
       "a", "s", " ", "d", "e", "p", "r", "e", "c", "a", "t", "e", "d", " ", "s", "e",
       "v", "e", "r", "a", "l", " ", "e", "n", "d", "p", "o", "i", "n", "t", "s", ",",
       " ", "w", "h", "i", "c", "h", " ", "m", "e", "a", "n", "s", " ", "w", "e", " ",
       "n", "e", "e", "d", " ", "t", "o", " ", "r", "e", "f", "a", "c", "t", "o", "r",
       " ", "a", "p", "p", "r", "o", "x", "i", "m", "a", "t", "e", "l", "y", " ", "\n",
       "3", "0", "%", " ", "o", "f", " ", "o", "u", "r", " ", "p", "a", "y", "m", "e",
       "n", "t", " ", "p", "r", "o", "c", "e", "s", "s", "i", "n", "g", " ", "c", "o",
       "d", "e", ".", " ", "T", "h", "i", "s", " ", "w", "i", "l", "l", " ", "l", "i",
       "k", "e", "l", "y", " ", "p", "u", "s", "h", " ", "o", "u", "r", " ", "b", "e",
       "t", "a", " ", "r", "e", "l", "e", "a", "s", "e", " ", "b", "a", "c", "k", " ",
       "b", "y", " ", "t", "w", "o", " ", "w", "e", "e", "k", "s", ".", "\n", "\n", "O",
       "n", " ", "a", " ", "p", "o", "s", "i", "t", "i", "v", "e", " ", "n", "o", "t",
       "e", ",", " ", "t", "h", "e", " ", "m", "o", "b", "i", "l", "e", " ", "a", "p",
       "p", " ", "d", "e", "v", "e", "l", "o", "p", "m", "e", "n", "t", " ", "i", "s",
       " ", "a", "h", "e", "a", "d", " ", "o", "f", " ", "s", "c", "h", "e", "d", "u",
       "l", "e", ".", " ", "B", "o", "t", "h", " ", "i", "O", "S", " ", "a", "n", "d",
       " ", "A", "n", "d", "r", "o", "i", "d", " ", "v", "e", "r", "s", "i", "o", "n",
       "s", " ", "\n", "a", "r", "e", " ", "n", "o", "w", " ", "f", "e", "a", "t", "u",
       "r", "e", "-", "c", "o", "m", "p", "l", "e", "t", "e", ",", " ", "a", "n", "d",
       " ", "w", "e", "'", "r", "e", " ", "c", "u", "r", "r", "e", "n", "t", "l", "y",
       " ", "i", "n", " ", "t", "h", "e", " ", "Q", "A", " ", "p", "h", "a", "s", "e",
       ".", " ", "U", "s", "e", "r", " ", "a", "c", "c", "e", "p", "t", "a", "n", "c",
       "e", " ", "t", "e", "s", "t", "i", "n", "g", " ", "w", "i", "l", "l", " ", "b",
       "e", "g", "i", "n", " ", "\n", "n", "e", "x", "t", " ", "M", "o", "n", "d", "a",
       "y", " ", "w", "i", "t", "h", " ", "a", " ", "g", "r", "o", "u", "p", " ", "o",
       "f", " ", "5", "0", " ", "b", "e", "t", "a", " ", "t", "e", "s", "t", "e", "r",
       "s", " ", "f", "r", "o", "m", " ", "o", "u", "r", " ", "c", "u", "s", "t", "o",
       "m", "e", "r", " ", "a", "d", "v", "i", "s", "o", "r", "y", " ", "b", "o", "a",
       "r", "d", ".", "\n", "\n", "R", "e", "g", "a", "r", "d", "i", "n", "g", " ", "b",
       "u", "d", "g", "e", "t", ",", " ", "w", "e", "'", "r", "e", " ", "c", "u", "r",
       "r", "e", "n", "t", "l", "y", " ", "t", "r", "a", "c", "k", "i", "n", "g", " ",
       "a", "t", " ", "9", "2", "%", " ", "o", "f", " ", "a", "l", "l", "o", "c", "a",
       "t", "e", "d", " ", "r", "e", "s", "o", "u", "r", "c", "e", "s", ".", " ", "T",
       "h", "e", " ", "a", "d", "d", "i", "t", "i", "o", "n", "a", "l", " ", "t", "w",
       "o", " ", "w", "e", "e", "k", "s", " ", "\n", "f", "o", "r", " ", "p", "a", "y",
       "m", "e", "n", "t", " ", "i", "n", "t", "e", "g", "r", "a", "t", "i", "o", "n",
       " ", "r", "e", "f", "a", "c", "t", "o", "r", "i", "n", "g", " ", "w", "i", "l",
       "l", " ", "r", "e", "q", "u", "i", "r", "e", " ", "a", "n", " ", "a", "d", "d",
       "i", "t", "i", "o", "n", "a", "l", " ", "$", "1", "5", ",", "0", "0", "0", " ",
       "i", "n", " ", "d", "e", "v", "e", "l", "o", "p", "m", "e", "n", "t", " ", "c",
       "o", "s", "t", "s", ",", " ", "w", "h", "i", "c", "h", " ", "\n", "I", "'", "v",
       "e", " ", "a", "l", "r", "e", "a", "d", "y", " ", "d", "i", "s", "c", "u", "s",
       "s", "e", "d", " ", "w", "i", "t", "h", " ", "f", "i", "n", "a", "n", "c", "e",
       ".", "\n", "\n", "A", "c", "t", "i", "o", "n", " ", "i", "t", "e", "m", "s", " ",
       "f", "o", "r", " ", "n", "e", "x", "t", " ", "w", "e", "e", "k", ":", "\n", "-",
       " ", "C", "o", "m", "p", "l", "e", "t", "e", " ", "p", "a", "y", "m", "e", "n",
       "t", " ", "A", "P", "I", " ", "r", "e", "f", "a", "c", "t", "o", "r", "i", "n",
       "g", "\n", "-", " ", "B", "e", "g", "i", "n", " ", "m", "o", "b", "i", "l", "e",
       " ", "a", "p", "p", " ", "U", "A", "T", "\n", "-", " ", "F", "i", "n", "a", "l",
       "i", "z", "e", " ", "d", "o", "c", "u", "m", "e", "n", "t", "a", "t", "i", "o",
       "n", " ", "f", "o", "r", " ", "c", "u", "s", "t", "o", "m", "e", "r", " ", "p",
       "o", "r", "t", "a", "l", "\n", "-", " ", "S", "c", "h", "e", "d", "u", "l", "e",
       " ", "s", "t", "a", "k", "e", "h", "o", "l", "d", "e", "r", " ", "d", "e", "m",
       "o", " ", "f", "o", "r", " ", "N", "o", "v", "e", "m", "b", "e", "r", " ", "1",
       "5", "t", "h", "\n", "\n", "P", "l", "e", "a", "s", "e", " ", "l", "e", "t", " ",
       "m", "e", " ", "k", "n", "o", "w", " ", "i", "f", " ", "y", "o", "u", " ", "h",
       "a", "v", "e", " ", "a", "n", "y", " ", "q", "u", "e", "s", "t", "i", "o", "n",
       "s", " ", "o", "r", " ", "c", "o", "n", "c", "e", "r", "n", "s", " ", "a", "b",
       "o", "u", "t", " ", "t", "h", "e", "s", "e", " ", "u", "p", "d", "a", "t", "e",
       "s", ".", "\n", "\n", "B", "e", "s", "t", " ", "r", "e", "g", "a", "r", "d", "s",
       ",", "\n", "S", "a", "r", "a", "h", " ", "J", "o", "h", "n", "s", "o", "n", "\n",
       "P", "r", "o", "j", "e", "c", "t", " ", "M", "a", "n", "a", "g", "e", "r"
    >>

\* The text load_sample_email returns (web), character by character.
sample_email_streamlit ==
    <<
       "S", "u", "b", "j", "e", "c", "t", ":", " ", "P", "r", "o", "j", "e", "c", "t",
       " ", "U", "p", "d", "a", "t", "e", " ", "-", " ", "Q", "4", " ", "D", "e", "l",
       "i", "v", "e", "r", "a", "b", "l", "e", "s", "\n", "\n", "H", "i", " ", "T", "e",
       "a", "m", ",", "\n", "\n", "I", " ", "w", "a", "n", "t", "e", "d", " ", "t", "o",
       " ", "p", "r", "o", "v", "i", "d", "e", " ", "a", " ", "q", "u", "i", "c", "k",
       " ", "u", "p", "d", "a", "t", "e", " ", "o", "n", " ", "o", "u", "r", " ", "Q",
       "4", " ", "p", "r", "o", "j", "e", "c", "t", " ", "d", "e", "l", "i", "v", "e",
       "r", "a", "b", "l", "e", "s", " ", "a", "n", "d", " ", "t", "i", "m", "e", "l",
       "i", "n", "e", " ", "a", "d", "j", "u", "s", "t", "m", "e", "n", "t", "s", ".",
       "\n", "\n", "F", "i", "r", "s", "t", ",", " ", "I", "'", "m", " ", "p", "l", "e",
       "a", "s", "e", "d", " ", "t", "o", " ", "r", "e", "p", "o", "r", "t", " ", "t",
       "h", "a", "t", " ", "t", "h", "e", " ", "a", "l", "p", "h", "a", " ", "v", "e",
       "r", "s", "i", "o", "n", " ", "o", "f", " ", "o", "u", "r", " ", "n", "e", "w",
       " ", "c", "u", "s", "t", "o", "m", "e", "r", " ", "p", "o", "r", "t", "a", "l",
       " ", "h", "a", "s", " ", "b", "e", "e", "n", " ", "s", "u", "c", "c", "e", "s",
       "s", "f", "u", "l", "l", "y", " ", "d", "e", "p", "l", "o", "y", "e", "d", " ",
       "t", "o", " ", "t", "h", "e", " ", "s", "t", "a", "g", "i", "n", "g", " ", "e",
       "n", "v", "i", "r", "o", "n", "m", "e", "n", "t", ".", " ", "T", "h", "e", " ",
       "d", "e", "v", "e", "l", "o", "p", "m", "e", "n", "t", " ", "t", "e", "a", "m",
       " ", "h", "a", "s", " ", "d", "o", "n", "e", " ", "a", "n", " ", "e", "x", "c",
       "e", "l", "l", "e", "n", "t", " ", "j", "o", "b", " ", "i", "m", "p", "l", "e",
       "m", "e", "n", "t", "i", "n", "g", " ", "t", "h", "e", " ", "c", "o", "r", "e",
       " ", "f", "e", "a", "t", "u", "r", "e", "s", ",", " ", "i", "n", "c", "l", "u",
       "d", "i", "n", "g", " ", "u", "s", "e", "r", " ", "a", "u", "t", "h", "e", "n",
       "t", "i", "c", "a", "t", "i", "o", "n", ",", " ", "d", "a", "s", "h", "b", "o",
       "a", "r", "d", " ", "a", "n", "a", "l", "y", "t", "i", "c", "s", ",", " ", "a",
       "n", "d", " ", "t", "h", "e", " ", "r", "e", "p", "o", "r", "t", "i", "n", "g",
       " ", "m", "o", "d", "u", "l", "e", ".", " ", "I", "n", "i", "t", "i", "a", "l",
       " ", "t", "e", "s", "t", "i", "n", "g", " ", "s", "h", "o", "w", "s", " ", "t",
       "h", "a", "t", " ", "p", "a", "g", "e", " ", "l", "o", "a", "d", " ", "t", "i",
       "m", "e", "s", " ", "h", "a", "v", "e", " ", "i", "m", "p", "r", "o", "v", "e",
       "d", " ", "b", "y", " ", "4", "0", "%", " ", "c", "o", "m", "p", "a", "r", "e",
       "d", " ", "t", "o", " ", "o", "u", "r", " ", "c", "u", "r", "r", "e", "n", "t",
       " ", "s", "y", "s", "t", "e", "m", ".", "\n", "\n", "H", "o", "w", "e", "v", "e",
       "r", ",", " ", "w", "e", "'", "v", "e", " ", "e", "n", "c", "o", "u", "n", "t",
       "e", "r", "e", "d", " ", "s", "o", "m", "e", " ", "c", "h", "a", "l", "l", "e",
       "n", "g", "e", "s", " ", "w", "i", "t", "h", " ", "t", "h", "e", " ", "p", "a",
       "y", "m", "e", "n", "t", " ", "i", "n", "t", "e", "g", "r", "a", "t", "i", "o",
       "n", " ", "m", "o", "d", "u", "l", "e", ".", " ", "T", "h", "e", " ", "t", "h",
       "i", "r", "d", "-", "p", "a", "r", "t", "y", " ", "A", "P", "I", " ", "w", "e",
       "'", "r", "e", " ", "u", "s", "i", "n", "g", " ", "h", "a", "s", " ", "d", "e",
       "p", "r", "e", "c", "a", "t", "e", "d", " ", "s", "e", "v", "e", "r", "a", "l",
       " ", "e", "n", "d", "p", "o", "i", "n", "t", "s", ",", " ", "w", "h", "i", "c",
       "h", " ", "m", "e", "a", "n", "s", " ", "w", "e", " ", "n", "e", "e", "d", " ",
       "t", "o", " ", "r", "e", "f", "a", "c", "t", "o", "r", " ", "a", "p", "p", "r",
       "o", "x", "i", "m", "a", "t", "e", "l", "y", " ", "3", "0", "%", " ", "o", "f",
       " ", "o", "u", "r", " ", "p", "a", "y", "m", "e", "n", "t", " ", "p", "r", "o",
       "c", "e", "s", "s", "i", "n", "g", " ", "c", "o", "d", "e", ".", " ", "T", "h",
       "i", "s", " ", "w", "i", "l", "l", " ", "l", "i", "k", "e", "l", "y", " ", "p",
       "u", "s", "h", " ", "o", "u", "r", " ", "b", "e", "t", "a", " ", "r", "e", "l",
       "e", "a", "s", "e", " ", "b", "a", "c", "k", " ", "b", "y", " ", "t", "w", "o",
       " ", "w", "e", "e", "k", "s", ".", "\n", "\n", "O", "n", " ", "a", " ", "p", "o",
       "s", "i", "t", "i", "v", "e", " ", "n", "o", "t", "e", ",", " ", "t", "h", "e",
       " ", "m", "o", "b", "i", "l", "e", " ", "a", "p", "p", " ", "d", "e", "v", "e",
       "l", "o", "p", "m", "e", "n", "t", " ", "i", "s", " ", "a", "h", "e", "a", "d",
       " ", "o", "f", " ", "s", "c", "h", "e", "d", "u", "l", "e", ".", " ", "B", "o",
       "t", "h", " ", "i", "O", "S", " ", "a", "n", "d", " ", "A", "n", "d", "r", "o",
       "i", "d", " ", "v", "e", "r", "s", "i", "o", "n", "s", " ", "a", "r", "e", " ",
       "n", "o", "w", " ", "f", "e", "a", "t", "u", "r", "e", "-", "c", "o", "m", "p",
       "l", "e", "t", "e", ",", " ", "a", "n", "d", " ", "w", "e", "'", "r", "e", " ",
       "c", "u", "r", "r", "e", "n", "t", "l", "y", " ", "i", "n", " ", "t", "h", "e",
       " ", "Q", "A", " ", "p", "h", "a", "s", "e", ".", " ", "U", "s", "e", "r", " ",
       "a", "c", "c", "e", "p", "t", "a", "n", "c", "e", " ", "t", "e", "s", "t", "i",
       "n", "g", " ", "w", "i", "l", "l", " ", "b", "e", "g", "i", "n", " ", "n", "e",
       "x", "t", " ", "M", "o", "n", "d", "a", "y", " ", "w", "i", "t", "h", " ", "a",
       " ", "g", "r", "o", "u", "p", " ", "o", "f", " ", "5", "0", " ", "b", "e", "t",
       "a", " ", "t", "e", "s", "t", "e", "r", "s", " ", "f", "r", "o", "m", " ", "o",
       "u", "r", " ", "c", "u", "s", "t", "o", "m", "e", "r", " ", "a", "d", "v", "i",
       "s", "o", "r", "y", " ", "b", "o", "a", "r", "d", ".", "\n", "\n", "R", "e", "g",
       "a", "r", "d", "i", "n", "g", " ", "b", "u", "d", "g", "e", "t", ",", " ", "w",
       "e", "'", "r", "e", " ", "c", "u", "r", "r", "e", "n", "t", "l", "y", " ", "t",
       "r", "a", "c", "k", "i", "n", "g", " ", "a", "t", " ", "9", "2", "%", " ", "o",
       "f", " ", "a", "l", "l", "o", "c", "a", "t", "e", "d", " ", "r", "e", "s", "o",
       "u", "r", "c", "e", "s", ".", " ", "T", "h", "e", " ", "a", "d", "d", "i", "t",
       "i", "o", "n", "a", "l", " ", "t", "w", "o", " ", "w", "e", "e", "k", "s", " ",
       "f", "o", "r", " ", "p", "a", "y", "m", "e", "n", "t", " ", "i", "n", "t", "e",
       "g", "r", "a", "t", "i", "o", "n", " ", "r", "e", "f", "a", "c", "t", "o", "r",
       "i", "n", "g", " ", "w", "i", "l", "l", " ", "r", "e", "q", "u", "i", "r", "e",
       " ", "a", "n", " ", "a", "d", "d", "i", "t", "i", "o", "n", "a", "l", " ", "$",
       "1", "5", ",", "0", "0", "0", " ", "i", "n", " ", "d", "e", "v", "e", "l", "o",
       "p", "m", "e", "n", "t", " ", "c", "o", "s", "t", "s", ",", " ", "w", "h", "i",
       "c", "h", " ", "I", "'", "v", "e", " ", "a", "l", "r", "e", "a", "d", "y", " ",
       "d", "i", "s", "c", "u", "s", "s", "e", "d", " ", "w", "i", "t", "h", " ", "f",
       "i", "n", "a", "n", "c", "e", ".", "\n", "\n", "A", "c", "t", "i", "o", "n", " ",
       "i", "t", "e", "m", "s", " ", "f", "o", "r", " ", "n", "e", "x", "t", " ", "w",
       "e", "e", "k", ":", "\n", "-", " ", "C", "o", "m", "p", "l", "e", "t", "e", " ",
       "p", "a", "y", "m", "e", "n", "t", " ", "A", "P", "I", " ", "r", "e", "f", "a",
       "c", "t", "o", "r", "i", "n", "g", "\n", "-", " ", "B", "e", "g", "i", "n", " ",
       "m", "o", "b", "i", "l", "e", " ", "a", "p", "p", " ", "U", "A", "T", "\n", "-",
       " ", "F", "i", "n", "a", "l", "i", "z", "e", " ", "d", "o", "c", "u", "m", "e",
       "n", "t", "a", "t", "i", "o", "n", " ", "f", "o", "r", " ", "c", "u", "s", "t",
       "o", "m", "e", "r", " ", "p", "o", "r", "t", "a", "l", "\n", "-", " ", "S", "c",
       "h", "e", "d", "u", "l", "e", " ", "s", "t", "a", "k", "e", "h", "o", "l", "d",
       "e", "r", " ", "d", "e", "m", "o", " ", "f", "o", "r", " ", "N", "o", "v", "e",
       "m", "b", "e", "r", " ", "1", "5", "t", "h", "\n", "\n", "P", "l", "e", "a", "s",
       "e", " ", "l", "e", "t", " ", "m", "e", " ", "k", "n", "o", "w", " ", "i", "f",
       " ", "y", "o", "u", " ", "h", "a", "v", "e", " ", "a", "n", "y", " ", "q", "u",
       "e", "s", "t", "i", "o", "n", "s", " ", "o", "r", " ", "c", "o", "n", "c", "e",
       "r", "n", "s", " ", "a", "b", "o", "u", "t", " ", "t", "h", "e", "s", "e", " ",
       "u", "p", "d", "a", "t", "e", "s", ".", "\n", "\n", "B", "e", "s", "t", " ", "r",
       "e", "g", "a", "r", "d", "s", ",", "\n", "S", "a", "r", "a", "h", " ", "J", "o",
       "h", "n", "s", "o", "n", "\n", "P", "r", "o", "j", "e", "c", "t", " ", "M", "a",
       "n", "a", "g", "e", "r"
    >>

\* ------------------------------------------------------------------ state
VARIABLES
    input,           \* SpecText: the input email text
    op,              \* SpecText: the function applied to it, "none" before
    passes,          \* SpecText: how many times it was applied
    first,           \* SpecText: the result of the first application
    out,             \* SpecText: the result of the last application
    frontend,        \* Spec: the front end this process runs
    pipeline_calls,  \* how many times pipeline("summarization", ...) was called
    requests,        \* the summarize requests accepted so far, in order
    tk,              \* the desktop application (EmailSummarizer and its threads)
    web,             \* the web application (cache, script runs of the sessions)
    actions          \* how many user actions happened

text_vars == <<input, op, passes, first, out>>
app_vars == <<frontend, pipeline_calls, requests, tk, web, actions>>
vars == <<text_vars, app_vars>>

\* ------------------------------------------------------- the capability
\* A name whose value is deleted or was never bound (e after its except block).
Unbound == "<unbound>"

\* pipeline("summarization", model="facebook/bart-large-cnn") returns the
\* summarizer or raises.
PipelineOutcomes ==
    { [ok |-> TRUE, error |-> ""], [ok |-> FALSE, error |-> "Connection error"] }

SummaryText ==
    <<"S", "h", "o", "r", "t", " ", "s", "u", "m", "m", "a", "r", "y", ".">>

\* summarizer(processed_text, max_length=150, min_length=30, do_sample=False)
\* returns [{'summary_text': ...}] or raises.
GenerateOutcomes ==
    { [ok |-> TRUE, value |-> SummaryText],
      [ok |-> FALSE, value |-> "CUDA out of memory"] }

\* The call summarizer(...): calling None raises TypeError.
Generate(summarizer, outcome) ==
    IF summarizer = "None"
    THEN [ok |-> FALSE, value |-> "'NoneType' object is not callable"]
    ELSE outcome

\* len(text.split()): the number of whitespace-separated words.
word_count(t) ==
    Cardinality({i \in 1..Len(t) : ~IsSpace(t[i]) /\ (i = 1 \/ IsSpace(t[i - 1]))})

\* Texts a user types or pastes: blank, short, and around the 1024 limit.
Body1024 == [i \in 1..max_length |-> "a"]
Body1025 == [i \in 1..(max_length + 1) |-> "a"]
Typed == { <<" ">>, <<"H", "i", NL, ">", "x", NL, "b", "y", "e">>, Body1024, Body1025 }

\* One accepted summarize request: the locals of the code that serves it and
\* what came of it.
NewRequest(email_text) ==
    [ pc |-> "start",              \* where perform_summarization stands
      email_text |-> email_text,
      subject |-> <<>>,
      cleaned |-> <<>>,            \* preprocess_email's result
      processed_text |-> <<>>,     \* what the summarizer is called with
      warned |-> FALSE,            \* the truncation warning was shown
      invocations |-> 0,           \* calls of the summarizer for this request
      ready |-> TRUE,              \* the model was loaded at each of them
      ok |-> FALSE,                \* the summarizer returned
      summary |-> <<>>,
      error |-> "",                \* what the summarizer raised, if it did
      e |-> Unbound,               \* the exception bound by "except ... as e"
      dispatched |-> FALSE,        \* its result or error callback has run
      shown |-> "nothing",         \* "results", "error", or "nothing" shown
      message |-> <<>>,            \* the error message shown
      uncaught |-> "" ]            \* the exception that escaped, if one did

\* Lines 195-210 and 117-140: subject, cleaned body, truncation and the call.
Served(r, subject, cleaned, warned, summarizer, loaded, outcome) ==
    LET result == Generate(summarizer, outcome)
    IN  [ r EXCEPT !.subject = subject,
                   !.cleaned = cleaned,
                   !.processed_text = truncate(cleaned),
                   !.warned = warned,
                   !.invocations = @ + 1,
                   !.ready = @ /\ loaded /\ summarizer # "None",
                   !.ok = result.ok,
                   !.summary = IF result.ok THEN result.value ELSE <<>>,
                   !.error = IF result.ok THEN "" ELSE result.value,
                   !.e = IF result.ok THEN Unbound ELSE result.value ]

\* ------------------------------------------------- the desktop front end
\* EmailSummarizer.__init__: the widgets as setup_ui leaves them, and the
\* thread load_model_thread has started.
TkInit ==
    [ summarizer |-> "None",
      model_loaded |-> FALSE,
      load_pc |-> "pipeline",          \* where load_model stands
      load_e |-> Unbound,              \* load_model's "except ... as e"
      after_queue |-> <<>>,            \* callbacks given to root.after(0, ...)
      summarize_btn |-> "disabled",
      status_label |-> "Loading model...",
      progress |-> "stopped",
      email_input |-> <<>>,
      subject_text |-> <<>>,
      summary_output |-> <<>>,
      dialogs |-> <<>>,                \* the message boxes shown, in order
      callback_errors |-> <<>> ]       \* exceptions raised inside Tk callbacks

IsTk == frontend = "tkinter"

After(t, callback) == [t EXCEPT !.after_queue = Append(@, callback)]

\* load_model, line 121: the pipeline call returns or raises.
LoadModelPipeline ==
    /\ IsTk
    /\ tk.load_pc = "pipeline"
    /\ \E r \in PipelineOutcomes :
          tk' = IF r.ok
                THEN [tk EXCEPT !.summarizer = "pipeline", !.load_pc = "set_flag"]
                ELSE [tk EXCEPT !.load_e = r.error, !.load_pc = "except"]
    /\ pipeline_calls' = pipeline_calls + 1
    /\ UNCHANGED <<text_vars, frontend, requests, web, actions>>

\* load_model, line 122.
LoadModelSetFlag ==
    /\ IsTk
    /\ tk.load_pc = "set_flag"
    /\ tk' = [tk EXCEPT !.model_loaded = TRUE, !.load_pc = "notify"]
    /\ UNCHANGED <<text_vars, frontend, pipeline_calls, requests, web, actions>>

\* load_model, line 125.
LoadModelNotify ==
    /\ IsTk
    /\ tk.load_pc = "notify"
    /\ tk' = [After(tk, [fn |-> "model_loaded_callback"]) EXCEPT !.load_pc = "done"]
    /\ UNCHANGED <<text_vars, frontend, pipeline_calls, requests, web, actions>>

\* load_model, line 127: the lambda given to root.after reads e when it runs.
LoadModelExcept ==
    /\ IsTk
    /\ tk.load_pc = "except"
    /\ tk' = [After(tk, [fn |-> "model_error_callback"]) EXCEPT !.load_pc = "except_exit"]
    /\ UNCHANGED <<text_vars, frontend, pipeline_calls, requests, web, actions>>

\* load_model leaves its except block: Python deletes e.
LoadModelExceptExit ==
    /\ IsTk
    /\ tk.load_pc = "except_exit"
    /\ tk' = [tk EXCEPT !.load_e = Unbound, !.load_pc = "done"]
    /\ UNCHANGED <<text_vars, frontend, pipeline_calls, requests, web, actions>>

NextCallback == IF tk.after_queue = <<>> THEN "" ELSE Head(tk.after_queue).fn

Dequeued(t) == [t EXCEPT !.after_queue = Tail(@)]

NameError == "NameError: cannot access free variable 'e'"

model_loaded_callback(t) ==
    [t EXCEPT !.status_label = "Model loaded", !.summarize_btn = "normal"]

model_error_callback(t, error_msg) ==
    [t EXCEPT !.status_label = "Model failed to load",
              !.dialogs = Append(@, [ kind |-> "error", title |-> "Model Loading Error",
                                      message |-> <<"Failed to load the summarization model:",
                                                    error_msg>> ])]

display_results(t, subject, summary) ==
    [t EXCEPT !.progress = "stopped", !.summarize_btn = "normal",
              !.subject_text = subject, !.summary_output = summary]

summarization_error(t, error_msg) ==
    [t EXCEPT !.progress = "stopped", !.summarize_btn = "normal",
              !.dialogs = Append(@, [ kind |-> "error", title |-> "Summarization Error",
                                      message |-> <<"Failed to summarize the email:",
                                                    error_msg>> ])]

\* The main loop runs model_loaded_callback.
RunModelLoadedCallback ==
    /\ IsTk
    /\ NextCallback = "model_loaded_callback"
    /\ tk' = model_loaded_callback(Dequeued(tk))
    /\ UNCHANGED <<text_vars, frontend, pipeline_calls, requests, web, actions>>

\* The main loop runs lambda: self.model_error_callback(str(e)).
RunModelErrorCallback ==
    /\ IsTk
    /\ NextCallback = "model_error_callback"
    /\ tk' = IF tk.load_e = Unbound
             THEN [Dequeued(tk) EXCEPT !.callback_errors = Append(@, NameError)]
             ELSE model_error_callback(Dequeued(tk), tk.load_e)
    /\ UNCHANGED <<text_vars, frontend, pipeline_calls, requests, web, actions>>

\* The main loop runs lambda: self.display_results(subject, summary).
RunDisplayResults ==
    /\ IsTk
    /\ NextCallback = "display_results"
    /\ LET i == Head(tk.after_queue).request
       IN  /\ tk' = display_results(Dequeued(tk), requests[i].subject, requests[i].summary)
           /\ requests' = [requests EXCEPT ![i].dispatched = TRUE, ![i].shown = "results"]
    /\ UNCHANGED <<text_vars, frontend, pipeline_calls, web, actions>>

\* The main loop runs lambda: self.summarization_error(str(e)).
RunSummarizationError ==
    /\ IsTk
    /\ NextCallback = "summarization_error"
    /\ LET i == Head(tk.after_queue).request
           e == requests[i].e
       IN  IF e = Unbound
           THEN /\ tk' = [Dequeued(tk) EXCEPT !.callback_errors = Append(@, NameError)]
                /\ requests' = [requests EXCEPT ![i].dispatched = TRUE,
                                                ![i].uncaught = NameError]
           ELSE /\ tk' = summarization_error(Dequeued(tk), e)
                /\ requests' = [requests EXCEPT
                                   ![i].dispatched = TRUE,
                                   ![i].shown = "error",
                                   ![i].message = tk'.dialogs[Len(tk'.dialogs)].message]
    /\ UNCHANGED <<text_vars, frontend, pipeline_calls, web, actions>>

UserCanAct == actions < MaxActions

\* The user types or pastes a text into email_input.
TkType(t) ==
    /\ IsTk /\ UserCanAct
    /\ tk' = [tk EXCEPT !.email_input = t]
    /\ actions' = actions + 1
    /\ UNCHANGED <<text_vars, frontend, pipeline_calls, requests, web>>

\* clear_all.
TkClearAll ==
    /\ IsTk /\ UserCanAct
    /\ tk' = [tk EXCEPT !.email_input = <<>>, !.subject_text = <<>>, !.summary_output = <<>>]
    /\ actions' = actions + 1
    /\ UNCHANGED <<text_vars, frontend, pipeline_calls, requests, web>>

\* load_sample_email.
TkLoadSample ==
    /\ IsTk /\ UserCanAct
    /\ tk' = [tk EXCEPT !.email_input = sample_email_tkinter]
    /\ actions' = actions + 1
    /\ UNCHANGED <<text_vars, frontend, pipeline_calls, requests, web>>

start_progress_only(t) == [t EXCEPT !.progress = "running"]

\* summarize_email, lines 182-184: the progress bar starts and the Summarize
\* button is disabled.
start_progress(t) == [t EXCEPT !.progress = "running", !.summarize_btn = "disabled"]

Warning(title, message) == [kind |-> "warning", title |-> title, message |-> <<message>>]

\* summarize_email: the command of the Summarize button, which a disabled
\* button does not run.
TkSummarizeEmail ==
    /\ IsTk /\ UserCanAct
    /\ tk.summarize_btn = "normal"
    /\ actions' = actions + 1
    /\ LET email_text == strip(tk.email_input)
       IN  IF email_text = <<>>
           THEN /\ tk' = [tk EXCEPT !.dialogs = Append(@, Warning("No Input",
                              "Please enter an email message to summarize."))]
                /\ UNCHANGED requests
           ELSE IF ~tk.model_loaded
           THEN /\ tk' = [tk EXCEPT !.dialogs = Append(@, Warning("Model Loading",
                              "Please wait for the model to load."))]
                /\ UNCHANGED requests
           ELSE /\ tk' = start_progress(tk)
                /\ requests' = Append(requests, NewRequest(email_text))
    /\ UNCHANGED <<text_vars, frontend, pipeline_calls, web>>

\* perform_summarization, lines 195-210: up to the summarizer's return or raise.
PerformSummarization(i) ==
    /\ IsTk
    /\ requests[i].pc = "start"
    /\ \E outcome \in GenerateOutcomes,
          subject \in {extract_subject_tkinter(requests[i].email_text)},
          cleaned \in {preprocess_email_tkinter(requests[i].email_text)} :
          \E served \in {Served(requests[i], subject, cleaned, FALSE,
                                tk.summarizer, tk.model_loaded, outcome)} :
             requests' = [requests EXCEPT
                             ![i] = [served EXCEPT !.pc = IF served.ok THEN "return"
                                                        ELSE "except"]]
    /\ UNCHANGED <<text_vars, frontend, pipeline_calls, tk, web, actions>>

\* perform_summarization, line 213.
PerformReturn(i) ==
    /\ IsTk
    /\ requests[i].pc = "return"
    /\ tk' = After(tk, [fn |-> "display_results", request |-> i])
    /\ requests' = [requests EXCEPT ![i].pc = "done"]
    /\ UNCHANGED <<text_vars, frontend, pipeline_calls, web, actions>>

\* perform_summarization, line 216: the lambda reads e when it runs.
PerformExcept(i) ==
    /\ IsTk
    /\ requests[i].pc = "except"
    /\ tk' = After(tk, [fn |-> "summarization_error", request |-> i])
    /\ requests' = [requests EXCEPT ![i].pc = "except_exit"]
    /\ UNCHANGED <<text_vars, frontend, pipeline_calls, web, actions>>

\* perform_summarization leaves its except block: Python deletes e.
PerformExceptExit(i) ==
    /\ IsTk
    /\ requests[i].pc = "except_exit"
    /\ requests' = [requests EXCEPT ![i].e = Unbound, ![i].pc = "done"]
    /\ UNCHANGED <<text_vars, frontend, pipeline_calls, tk, web, actions>>

TkNext ==
    \/ LoadModelPipeline
    \/ LoadModelSetFlag
    \/ LoadModelNotify
    \/ LoadModelExcept
    \/ LoadModelExceptExit
    \/ RunModelLoadedCallback
    \/ RunModelErrorCallback
    \/ RunDisplayResults
    \/ RunSummarizationError
    \/ \E t \in Typed : TkType(t)
    \/ TkClearAll
    \/ TkLoadSample
    \/ TkSummarizeEmail
    \/ \E i \in DOMAIN requests :
          \/ PerformSummarization(i)
          \/ PerformReturn(i)
          \/ PerformExcept(i)
          \/ PerformExceptExit(i)

\* ----------------------------------------------------- the web front end
Sessions == 1..MaxSessions

\* The page a script run has rendered.
BlankPage ==
    [ load_error |-> "",       \* st.error inside load_summarization_model
      model |-> "",            \* "success" or "error": lines 180-183
      widgets |-> FALSE,       \* the input area and the buttons were rendered
      can_summarize |-> FALSE, \* the Summarize button is enabled
      warning |-> FALSE,       \* the truncation warning
      result |-> "",           \* "ok", "failed", "info", or the exception raised
      subject |-> <<>>,
      summary |-> <<>>,
      reduction |-> 0 ]

SessionInit ==
    [ pc |-> "closed",         \* where the script run stands; "idle" between runs
      trigger |-> "",          \* the user action that started the run
      email_input |-> <<>>,    \* st.session_state.email_input
      summarizer |-> "None",   \* main's summarizer, model_loaded
      model_loaded |-> FALSE,
      page |-> BlankPage ]

WebInit ==
    [ cache |-> <<>>,          \* the cached result of load_summarization_model, once there
      lock |-> 0,              \* the session computing it, 0 when none
      sessions |-> [s \in Sessions |-> SessionInit] ]

IsWeb == frontend = "streamlit"

\* A script run starts: Streamlit runs main() from the top.
Rerun(s, trigger, email_input) ==
    web' = [web EXCEPT !.sessions[s] =
               [@ EXCEPT !.pc = "lookup", !.trigger = trigger,
                         !.email_input = email_input, !.page = BlankPage]]

\* A browser opens the page.
WebOpen(s) ==
    /\ IsWeb /\ UserCanAct
    /\ web.sessions[s].pc = "closed"
    /\ Rerun(s, "open", <<>>)
    /\ actions' = actions + 1
    /\ UNCHANGED <<text_vars, frontend, pipeline_calls, requests, tk>>

\* The user reloads the page: a new session state, the same process.
WebRefresh(s) ==
    /\ IsWeb /\ UserCanAct
    /\ web.sessions[s].pc = "idle"
    /\ Rerun(s, "open", <<>>)
    /\ actions' = actions + 1
    /\ UNCHANGED <<text_vars, frontend, pipeline_calls, requests, tk>>

CanUse(s) ==
    /\ IsWeb /\ UserCanAct
    /\ web.sessions[s].pc = "idle"
    /\ web.sessions[s].page.widgets

\* The user types or pastes a text into the text area.
WebType(s, t) ==
    /\ CanUse(s)
    /\ Rerun(s, "edit", t)
    /\ actions' = actions + 1
    /\ UNCHANGED <<text_vars, frontend, pipeline_calls, requests, tk>>

\* The user clicks a button: "sample", "summarize" (when enabled) or "clear".
WebClick(s, button) ==
    /\ CanUse(s)
    /\ button = "summarize" => web.sessions[s].page.can_summarize
    /\ Rerun(s, button, web.sessions[s].email_input)
    /\ actions' = actions + 1
    /\ UNCHANGED <<text_vars, frontend, pipeline_calls, requests, tk>>

CacheNeverHit(cache) == FALSE

\* @st.cache_resource: the function has a cached result.
CacheHit(cache) == cache # <<>>

\* load_summarization_model, lines 71-76: what it returns.
load_summarization_model(r) ==
    IF r.ok THEN [summarizer |-> "pipeline", model_loaded |-> TRUE]
    ELSE [summarizer |-> "None", model_loaded |-> FALSE]

Loaded(session, value) ==
    [session EXCEPT !.summarizer = value.summarizer,
                    !.model_loaded = value.model_loaded,
                    !.pc = "body"]

\* main, line 178: the cached function is called; a cached result is returned.
CacheLookup(s) ==
    /\ IsWeb
    /\ web.sessions[s].pc = "lookup"
    /\ web' = IF CacheHit(web.cache)
              THEN [web EXCEPT !.sessions[s] = Loaded(@, web.cache[1])]
              ELSE [web EXCEPT !.sessions[s].pc = "acquire"]
    /\ UNCHANGED <<text_vars, frontend, pipeline_calls, requests, tk, actions>>

\* Without a cached result the caller takes the function's lock.
CacheAcquire(s) ==
    /\ IsWeb
    /\ web.sessions[s].pc = "acquire"
    /\ web.lock = 0
    /\ web' = [web EXCEPT !.lock = s, !.sessions[s].pc = "locked"]
    /\ UNCHANGED <<text_vars, frontend, pipeline_calls, requests, tk, actions>>

\* Under the lock the caller looks again, and runs the function when there is
\* still no result: lines 70-76.
CacheCompute(s) ==
    /\ IsWeb
    /\ web.sessions[s].pc = "locked"
    /\ IF CacheHit(web.cache)
       THEN /\ web' = [web EXCEPT !.lock = 0, !.sessions[s] = Loaded(@, web.cache[1])]
            /\ UNCHANGED pipeline_calls
       ELSE /\ \E r \in PipelineOutcomes :
                  LET value == load_summarization_model(r)
                  IN  web' = [web EXCEPT
                                 !.cache = <<value>>,
                                 !.lock = 0,
                                 !.sessions[s] = [Loaded(@, value) EXCEPT
                                                     !.page.load_error = r.error]]
            /\ pipeline_calls' = pipeline_calls + 1
    /\ UNCHANGED <<text_vars, frontend, requests, tk, actions>>

main_always_proceeds(model_loaded) == TRUE

\* main, lines 180-184: the rest of the page is rendered.
main_proceeds(model_loaded) == model_loaded

\* summarize_email, lines 117-140, and what main shows of it, lines 221-251.
Summarized(session, email_text, subject, cleaned, outcome) ==
    LET r == Served(NewRequest(email_text), subject, cleaned, Len(cleaned) > max_length,
                    session.summarizer, session.model_loaded, outcome)
        summary == IF r.ok THEN r.summary ELSE <<"Error generating summary: ", r.e>>
    IN  [r EXCEPT !.pc = "done",
                  !.e = Unbound,
                  !.dispatched = TRUE,
                  !.summary = summary,
                  !.shown = IF r.ok THEN "results" ELSE "error",
                  !.message = IF r.ok THEN <<>> ELSE summary,
                  !.uncaught = IF r.ok /\ word_count(email_text) = 0
                               THEN "ZeroDivisionError" ELSE ""]

\* ((original_words - summary_words) / original_words) * 100, in whole percent.
reduction(email_text, summary) ==
    ((word_count(email_text) - word_count(summary)) * 100) \div word_count(email_text)

\* st.text_area(..., key="email_input"): the session's text, which the Load
\* Sample button has set before, lines 193-203.
EmailText(session) ==
    IF session.trigger = "sample" THEN sample_email_streamlit ELSE session.email_input

\* Lines 186-209: the input column of a run whose model is loaded.
InputColumn(session) ==
    [ BlankPage EXCEPT !.load_error = session.page.load_error,
                       !.model = "success",
                       !.widgets = TRUE,
                       !.can_summarize = EmailText(session) # <<>> ]

Finished(session, page) ==
    [session EXCEPT !.pc = "idle", !.email_input = EmailText(session), !.page = page]

\* main, from line 180 to its end.
WebMain(s) ==
    LET session == web.sessions[s]
    IN  /\ IsWeb
        /\ session.pc = "body"
        /\ IF ~main_proceeds(session.model_loaded)
           THEN \* lines 183-184
                /\ web' = [web EXCEPT !.sessions[s] =
                             [session EXCEPT
                                 !.pc = "idle",
                                 !.page = [BlankPage EXCEPT
                                              !.load_error = session.page.load_error,
                                              !.model = "error"]]]
                /\ UNCHANGED requests
           ELSE IF session.trigger = "clear"
           THEN \* lines 211-213: the widget's key is assigned after the widget
                \* exists, which Streamlit refuses from the release on that has
                \* st.rerun; without the refusal the script runs again.
                /\ \E clear_raises \in BOOLEAN :
                      web' = [web EXCEPT !.sessions[s] =
                                 IF clear_raises
                                 THEN Finished(session,
                                               [InputColumn(session) EXCEPT
                                                   !.result = "StreamlitAPIException"])
                                 ELSE [session EXCEPT !.pc = "lookup", !.trigger = "rerun",
                                                      !.email_input = <<>>,
                                                      !.page = BlankPage]]
                /\ UNCHANGED requests
           ELSE IF session.trigger = "summarize" /\ EmailText(session) # <<>>
           THEN \* lines 218-251
                \E outcome \in GenerateOutcomes,
                   subject \in {extract_subject_streamlit(EmailText(session))},
                   cleaned \in {preprocess_email_streamlit(EmailText(session))} :
                   \E r \in {Summarized(session, EmailText(session), subject, cleaned, outcome)} :
                      /\ requests' = Append(requests, r)
                      /\ web' = [web EXCEPT !.sessions[s] =
                                   Finished(session,
                                      [InputColumn(session) EXCEPT
                                          !.warning = r.warned,
                                          !.result = IF r.uncaught # "" THEN r.uncaught
                                                     ELSE IF r.ok THEN "ok" ELSE "failed",
                                          !.subject = IF r.ok THEN r.subject ELSE <<>>,
                                          !.summary = r.summary,
                                          !.reduction =
                                              IF r.ok /\ r.uncaught = ""
                                              THEN reduction(EmailText(session), r.summary)
                                              ELSE 0])]
           ELSE \* lines 252-253
                /\ web' = [web EXCEPT !.sessions[s] =
                             Finished(session,
                                [InputColumn(session) EXCEPT
                                    !.result = IF EmailText(session) = <<>> THEN "info"
                                               ELSE ""])]
                /\ UNCHANGED requests
        /\ UNCHANGED <<text_vars, frontend, pipeline_calls, tk, actions>>

WebNext ==
    \/ \E s \in Sessions :
          \/ WebOpen(s)
          \/ WebRefresh(s)
          \/ \E t \in Typed : WebType(s, t)
          \/ \E button \in {"sample", "summarize", "clear"} : WebClick(s, button)
          \/ CacheLookup(s)
          \/ CacheAcquire(s)
          \/ CacheCompute(s)
          \/ WebMain(s)

\* ------------------------------------------------------ the specification
TextIdle ==
    /\ input = <<>>
    /\ op = "none"
    /\ passes = 0
    /\ first = <<>>
    /\ out = <<>>

AppInit ==
    /\ pipeline_calls = 0
    /\ requests = <<>>
    /\ tk = TkInit
    /\ web = WebInit
    /\ actions = 0

\* The process is started as the desktop application or as the web application.
Init ==
    /\ TextIdle
    /\ frontend \in {"tkinter", "streamlit"}
    /\ AppInit

Next == TkNext \/ WebNext

Spec == Init /\ [][Next]_vars

\* ------------------------------------------------------- the text functions
\* SpecText applies extract_subject and preprocess_email of either front end
\* to one input text.
A30 == [i \in 1..30 |-> "a"]

\* What an input text is put together from: a letter, the kinds of whitespace
\* the patterns tell apart, the quote marker, salutations, header labels, and a
\* run of letters long enough for two or three of them to pass 60 characters.
Pieces ==
    { <<"a">>, <<" ">>, <<NL>>, <<">">>,
      <<"b", "e", "s", "t">>, <<"C", "h", "e", "e", "r", "s", ",">>,
      <<"F", "r", "o", "m", ":">>, <<"s", "u", "b", "j", "e", "c", "t", ":">>,
      A30 }

RECURSIVE Concats(_)
Concats(n) ==
    IF n = 0 THEN {<<>>}
    ELSE LET shorter == Concats(n - 1)
         IN  shorter \cup {p \o x : p \in shorter, x \in Pieces}

\* One header line between a line of text and a blank line.
HeaderBeforeBlankLine ==
    <<"H", "i", NL, "F", "r", "o", "m", ":", " ", "x", NL, NL, "b", "y", "e">>

\* A sentence whose line ends in a word that is also a salutation.
SentenceEndingInBest ==
    <<"T", "h", "a", "t", " ", "w", "o", "r", "k", "s", " ", "b", "e", "s", "t", NL,
      "f", "o", "r", " ", "m", "e">>

\* A body with a signature block.
BodyWithSignature ==
    <<"B", "o", "d", "y", " ", "t", "e", "x", "t", NL,
      "B", "e", "s", "t", " ", "r", "e", "g", "a", "r", "d", "s", ",", NL,
      "J", "o", "h", "n", " ", "D", "o", "e">>

Inputs ==
    Concats(MaxPieces)
      \cup {sample_email_tkinter, sample_email_streamlit,
            HeaderBeforeBlankLine, SentenceEndingInBest, BodyWithSignature}

ExtractSubject == {"extract_subject_tkinter", "extract_subject_streamlit"}
PreprocessEmail == {"preprocess_email_tkinter", "preprocess_email_streamlit"}
RemoveSignature == {"remove_signature_tkinter", "remove_signature_streamlit"}

Functions == ExtractSubject \cup PreprocessEmail \cup RemoveSignature

Apply(f, t) ==
    CASE f = "extract_subject_tkinter" -> extract_subject_tkinter(t)
      [] f = "extract_subject_streamlit" -> extract_subject_streamlit(t)
      [] f = "preprocess_email_tkinter" -> preprocess_email_tkinter(t)
      [] f = "preprocess_email_streamlit" -> preprocess_email_streamlit(t)
      [] f = "remove_signature_tkinter" -> remove_signature_tkinter(t)
      [] f = "remove_signature_streamlit" -> remove_signature_streamlit(t)

\* A function is called on the input text.
Call(f) ==
    /\ op = "none"
    /\ op' = f
    /\ passes' = 1
    /\ first' = Apply(f, input)
    /\ out' = first'
    /\ UNCHANGED <<input, app_vars>>

\* preprocess_email is called on its own result.
CallAgain(f) ==
    /\ op = f
    /\ passes = 1
    /\ passes' = 2
    /\ out' = Apply(f, first)
    /\ UNCHANGED <<input, op, first, app_vars>>

\* No front end runs: the functions are called directly.
InitText ==
    /\ input \in Inputs
    /\ op = "none"
    /\ passes = 0
    /\ first = <<>>
    /\ out = <<>>
    /\ frontend = "none"
    /\ AppInit

NextText ==
    \/ \E f \in Functions : Call(f)
    \/ \E f \in PreprocessEmail : CallAgain(f)

SpecText == InitText /\ [][NextText]_vars

\* ---------------------------------------------------- claims on the text
\* The first line as extract_subject cleans it before it looks at its length.
CleanedFirstLine(f, t) ==
    IF f = "extract_subject_streamlit"
    THEN remove_subject_prefix(first_line(t))
    ELSE first_line(t)

EndsWithEllipsis(s) ==
    Len(s) >= Len(Ellipsis) /\ SubSeq(s, Len(s) - Len(Ellipsis) + 1, Len(s)) = Ellipsis

\* C6: the subject extract_subject returns is at most 60 characters long, and
\* when the cleaned first line was longer than 60 characters it is that line's
\* first 57 characters followed by "...", 60 characters in all.
C6_SubjectAtMost60 ==
    op \in ExtractSubject =>
        /\ Len(out) <= 60
        /\ LET cleaned == CleanedFirstLine(op, input)
           IN  Len(cleaned) > 60 =>
                  /\ Len(out) = 60
                  /\ EndsWithEllipsis(out)
                  /\ \A k \in 1..57 : out[k] = cleaned[k]

C6_Witness ==
    /\ op \in ExtractSubject
    /\ Len(CleanedFirstLine(op, input)) > 60
    /\ EndsWithEllipsis(out)

\* C7: when the first line begins with the label "Subject:" in any letter case,
\* extract_subject of either front end returns the first line without the label
\* and the whitespace after it, so the subject does not start with "Subject:";
\* the sample email yields "Project Update - Q4 Deliverables".
SampleSubject ==
    <<"P", "r", "o", "j", "e", "c", "t", " ", "U", "p", "d", "a", "t", "e", " ", "-", " ",
      "Q", "4", " ", "D", "e", "l", "i", "v", "e", "r", "a", "b", "l", "e", "s">>

C7_SubjectLabelRemoved ==
    (op \in ExtractSubject /\ LiteralAt(first_line(input), 1, SubjectLabel, TRUE)) =>
        /\ out = shorten_subject(remove_subject_prefix(first_line(input)))
        /\ ~LiteralAt(out, 1, SubjectLabel, TRUE)
        /\ input \in {sample_email_tkinter, sample_email_streamlit} => out = SampleSubject

\* The positions of the closing salutations (in any letter case, a comma after
\* them or not) that are a line of the text by themselves, whitespace aside,
\* and are followed by a newline.
SalutationLines(t) ==
    {a \in 1..Len(t) :
        /\ \E b \in 1..a :
              AtLineStart(t, b) /\ \A k \in b..(a - 1) : t[k] \in Whitespace \ {NL}
        /\ LineEnd(t, a) < Len(t)
        /\ \E w \in Salutations_streamlit, comma \in {<<>>, <<",">>} :
              /\ LiteralAt(t, a, w \o comma, TRUE)
              /\ \A k \in (a + Len(w) + Len(comma))..LineEnd(t, a) : IsSpace(t[k])}

\* C8: signature removal deletes the first line that consists of a closing
\* salutation and everything after it, keeps all text before that line, and
\* leaves a text without such a line unchanged.
C8_SignatureFromSalutationLine ==
    op \in RemoveSignature =>
        IF SalutationLines(input) = {}
        THEN out = input
        ELSE out = SubSeq(input, 1, MinOf(SalutationLines(input)) - 1)

IndentedQuote(t) ==
    \E i \in 2..Len(t) : t[i] = ">" /\ t[i - 1] \in Whitespace \ {NL}

StructureCount(t) ==
    Cardinality({a \in 1..Len(t) : HeaderLineEnd(t, a) > 0})
      + Cardinality({a \in 1..Len(t) : t[a] = ">"})
      + Cardinality({a \in 1..Len(t) :
                        \E w \in Salutations_streamlit : LiteralAt(t, a, w, TRUE)})

\* C10: preprocess_email applied to its own result returns that result, for
\* every text that holds no header line, quote marker or salutation more than
\* once (no repeated structure).
C10_Idempotent ==
    (op \in PreprocessEmail /\ passes = 2 /\ StructureCount(input) <= 1) => out = first

\* ------------------------------------------------ claims on the front ends
Served_(i) == requests[i].invocations > 0

\* The model is loaded and the handle is set, as the front end itself sees it.
HandleReady ==
    \/ IsTk /\ tk.model_loaded /\ tk.summarizer # "None"
    \/ IsWeb /\ web.cache = <<[summarizer |-> "pipeline", model_loaded |-> TRUE]>>

\* C1: the summarizer is called only while the model is loaded and the handle
\* is set; no request is accepted, and none reaches the summarizer, before the
\* model is loaded, while it loads, or after loading failed.
C1_InvokedOnlyWhenReady ==
    /\ requests # <<>> => HandleReady
    /\ \A i \in DOMAIN requests : Served_(i) => requests[i].ready
    /\ \A s \in Sessions : web.sessions[s].page.widgets => HandleReady

C1_Witness ==
    \E i \in DOMAIN requests : Served_(i) /\ requests[i].ready /\ requests[i].dispatched

\* The outcome of loading the model is known to the front end.
LoadDecided ==
    \/ IsTk /\ tk.load_pc # "pipeline"
    \/ IsWeb /\ web.cache # <<>>
    \/ IsWeb /\ \E s \in Sessions : web.sessions[s].pc \in {"body", "idle"}

\* C2: the model is loaded at most once in the life of the process, and
\* exactly once by the time anything depends on it: no user action and no
\* second caller starts another load.
C2_OneInitialization ==
    /\ pipeline_calls <= 1
    /\ (LoadDecided \/ requests # <<>>) => pipeline_calls = 1

\* A second session holds the lock after the first one has loaded the model.
C2_Witness ==
    /\ pipeline_calls = 1
    /\ \E s, t \in Sessions :
          /\ web.sessions[s].pc = "idle"
          /\ web.sessions[t].pc = "locked"

\* C3: when the summarizer raises, the request ends with a failure message
\* that holds the error text and is shown to the user, the summarizer was
\* called once for it, and no exception escapes.
C3_FailureReported ==
    \A i \in DOMAIN requests :
        (Served_(i) /\ ~requests[i].ok /\ requests[i].dispatched) =>
            /\ requests[i].shown = "error"
            /\ \E k \in DOMAIN requests[i].message :
                  requests[i].message[k] = requests[i].error
            /\ requests[i].invocations = 1
            /\ requests[i].uncaught = ""

\* Loading the model has failed.
LoadFailed ==
    \/ IsTk /\ tk.load_pc \in {"except", "except_exit"}
    \/ IsTk /\ tk.load_pc = "done" /\ tk.summarizer = "None"
    \/ IsWeb /\ web.cache = <<[summarizer |-> "None", model_loaded |-> FALSE]>>

\* The front end has had its turn to report the failed load: the main loop
\* has run the error callback, or the script run has ended.
TkLoadReported ==
    /\ IsTk
    /\ tk.load_pc \in {"except_exit", "done"}
    /\ \A k \in DOMAIN tk.after_queue : tk.after_queue[k].fn # "model_error_callback"

\* C4: after a failed load the handle stays failed (never ready, never loaded
\* again) and the failure is shown to the user.
C4_LoadFailureTerminalAndShown ==
    LoadFailed =>
        /\ ~HandleReady
        /\ pipeline_calls = 1
        /\ TkLoadReported =>
              /\ tk.status_label = "Model failed to load"
              /\ \E k \in DOMAIN tk.dialogs : tk.dialogs[k].title = "Model Loading Error"
        /\ \A s \in Sessions :
              (IsWeb /\ web.sessions[s].pc = "idle") =>
                  /\ web.sessions[s].page.model = "error"
                  /\ ~web.sessions[s].page.widgets

\* C5: a cleaned body of more than 1024 characters reaches the summarizer as
\* its first 1024 characters, with a truncation warning shown; a cleaned body
\* of at most 1024 characters reaches it unchanged, without a warning.
C5_TruncatedWithWarning ==
    \A i \in DOMAIN requests :
        Served_(i) =>
            LET r == requests[i]
            IN  /\ Len(r.processed_text) <= 1024
                /\ IF Len(r.cleaned) > 1024
                   THEN r.processed_text = SubSeq(r.cleaned, 1, 1024) /\ r.warned
                   ELSE r.processed_text = r.cleaned /\ ~r.warned

\* Everything the code does for request i has been done: its worker thread has
\* ended and no callback of it waits in the main loop's queue.
Settled(i) ==
    /\ requests[i].pc = "done"
    /\ \A k \in DOMAIN tk.after_queue :
          tk.after_queue[k].fn \in {"display_results", "summarization_error"}
              => tk.after_queue[k].request # i

\* C11: in the desktop front end an accepted request completes: once its
\* worker has ended and its callback has left the queue, display_results or
\* summarization_error has run for it, the progress indicator is stopped and
\* the Summarize button is enabled again (the front end is not left busy).
C11_RequestCompletes ==
    (IsTk /\ requests # <<>> /\ Settled(Len(requests))) =>
        /\ requests[Len(requests)].shown \in {"results", "error"}
        /\ tk.progress = "stopped"
        /\ tk.summarize_btn = "normal"

\* Request i is in flight: accepted, and its result or error callback has not
\* run yet.
InFlight(i) == ~requests[i].dispatched

\* C12: in the desktop front end at most one request is in flight: while one
\* is, it is the latest one and the Summarize button is disabled, so no
\* summarizer call starts before the previous request's callback has run.
C12_OneWorkerInFlight ==
    IsTk =>
        /\ Cardinality({i \in DOMAIN requests : InFlight(i)}) <= 1
        /\ \A i \in DOMAIN requests :
              InFlight(i) => i = Len(requests) /\ tk.summarize_btn = "disabled"
        /\ \A i, j \in DOMAIN requests :
              (i < j /\ Served_(j)) => requests[i].dispatched

\* A second request is served after the first one's callback has run.
C12_Witness ==
    /\ IsTk
    /\ Len(requests) >= 2
    /\ requests[1].dispatched
    /\ Served_(2) /\ InFlight(2)

\* C13: in the web front end, whenever the reduction is computed after a
\* successful summarization, the input has at least one word, so the division
\* by the original word count is defined (no ZeroDivisionError).
C13_ReductionDefined ==
    IsWeb =>
        /\ \A i \in DOMAIN requests :
              requests[i].ok =>
                  /\ word_count(requests[i].email_text) > 0
                  /\ requests[i].uncaught = ""
        /\ \A s \in Sessions : web.sessions[s].page.result # "ZeroDivisionError"
====
